---------------------------- MODULE Spec2Model ----------------------------
(***************************************************************************)
(* Model of the request execution pipeline of the LicenseChain Go SDK:     *)
(* client construction (NewClient) and the retry loop of                    *)
(* LicenseChainClient.do in src/client/client.go.                           *)
(*                                                                         *)
(* One call runs at a time.  The environment supplies, for every send, the  *)
(* outcome of httpClient.Do and io.ReadAll, and may cancel the call's       *)
(* context at any moment.                                                   *)
(*                                                                         *)
(* Specifications:                                                         *)
(*   Spec           one call of LicenseChainClient.do, every outcome        *)
(*   SpecOps        the public operations with every argument, and the      *)
(*                  ValidateLicense of the package licensechain             *)
(*   SpecNewClient  NewClient applied to every Config                       *)
(*   SpecConc       several calls interleaved on one client                 *)
(*   SpecFromConfig one call on a client built from a known Config          *)
(*   SpecWebhook    WebhookHandler.VerifySignature and ProcessEvent         *)
(*   SpecRetry      the helper RetryWithBackoff                             *)
(***************************************************************************)
EXTENDS Integers, Sequences, FiniteSets, TLC

VARIABLES
    client,     \* the LicenseChainClient built by NewClient
    pc,         \* position of the call: "idle", "loop", "sleep", "done"
    hasResult,  \* the call passed a non-nil result pointer
    i,          \* loop variable of do
    lastErr,    \* local variable lastErr of do
    ret,        \* the error do returned (meaningful when pc = "done")
    decoded,    \* json.Unmarshal filled the caller's result
    cancelled,  \* the context of the request is done
    attempts,   \* number of httpClient.Do calls made by this call
    sleeps,     \* the time.Sleep calls made by this call, in order
    observed,   \* status seen by each attempt (TransportFailure when none)
    last,       \* the outcome of the most recent attempt
    args,       \* the arguments of the public operation being called
    req,        \* the *http.Request built by newRequest
    sent,       \* the requests handed to httpClient.Do, in order
    bodyRead,   \* the buffer behind req.Body has been read by a send
    bodies,     \* what req.Body had to give to each send, in order
    config,     \* the Config passed to NewClient (SpecNewClient)
    newErr,     \* the error NewClient returned (SpecNewClient)
    calls,      \* the locals of each concurrent call (SpecConc)
    wh,         \* a WebhookHandler, the event it is given and what it did
    rwb         \* one call of RetryWithBackoff: arguments, locals, result

vars == << client, pc, hasResult, i, lastErr, ret, decoded, cancelled,
           attempts, sleeps, observed, last, args, req, sent, bodyRead,
           bodies, config, newErr, calls, wh, rwb >>

\* the variables of the other specifications, which one call leaves alone
others == << config, newErr, calls, wh, rwb >>

---------------------------------------------------------------------------
(* Bounds of the model.                                                    *)

\* Largest Config.Retries the model constructs a client with.
MaxCfgRetries == 2

---------------------------------------------------------------------------
(* time.Duration: a signed 64-bit count of nanoseconds, represented by the *)
(* set of positions of its one bits (bit 63 is the sign bit).              *)

DurationBits == 64

FromNat(n) == { k \in 0..30 : (n \div (2^k)) % 2 = 1 }

ZeroDuration == {}

\* 1 * time.Second = 1 000 000 000 ns
Second == FromNat(1000000000)

\* 10 * time.Millisecond
TenMillis == FromNat(10000000)

\* 2^62 ns: a delay whose doubling leaves the positive int64 range
HugeDelay == {62}

\* d << n on 64 bits: bits shifted past bit 63 are lost
Shl(d, n) == { k + n : k \in { j \in d : j + n < DurationBits } }

RECURSIVE CarryInto(_, _, _)
\* carry into bit k of a + b
CarryInto(a, b, k) ==
    IF k = 0 THEN FALSE
    ELSE LET x == (k - 1) \in a
             y == (k - 1) \in b
             c == CarryInto(a, b, k - 1)
         IN (x /\ y) \/ (x /\ c) \/ (y /\ c)

\* a + b modulo 2^64
Add64(a, b) ==
    IF b = {} THEN a
    ELSE IF a = {} THEN b
    ELSE { k \in 0..(DurationBits - 1) :
             LET x == k \in a
                 y == k \in b
                 c == CarryInto(a, b, k)
             IN (x /\ ~y /\ ~c) \/ (~x /\ y /\ ~c) \/ (~x /\ ~y /\ c)
                \/ (x /\ y /\ c) }

RECURSIVE SumOfShifts(_, _)
SumOfShifts(a, ps) ==
    IF ps = {} THEN {}
    ELSE LET p == CHOOSE q \in ps : TRUE
         IN Add64(Shl(a, p), SumOfShifts(a, ps \ {p}))

\* a * b modulo 2^64 (Go's wrapping multiplication of two int64)
Mul64(a, b) == SumOfShifts(a, b)

\* time.Duration(1 << i): a shift count of 64 or more yields 0
OneShl(n) == IF n < DurationBits THEN {n} ELSE {}

\* plausible bug: linear instead of exponential backoff
BackoffLinear(retryDelay, n) == Mul64(retryDelay, FromNat(n + 1))

\* c.retryDelay * time.Duration(1<<i)
Backoff(retryDelay, n) == Mul64(retryDelay, OneShl(n))

---------------------------------------------------------------------------
(* NewClient.                                                              *)

DefaultRetries == 3

DefaultRetryDelay == Second

\* 30 * time.Second
DefaultTimeout == Mul64(FromNat(30), Second)

\* 5 * time.Second, a caller-supplied timeout
FiveSeconds == Mul64(FromNat(5), Second)

\* a URL is the sequence of its pieces; the empty string is << >>
DefaultBaseURL == << "https://api.licensechain.app" >>

\* strings.TrimSuffix(s, "/")
TrimSuffix(s) ==
    IF Len(s) > 0 /\ s[Len(s)] = "/" THEN SubSeq(s, 1, Len(s) - 1) ELSE s

\* the Configs of Spec: one API key, default URL and timeout
Configs ==
    [ APIKey     : {"key-1"},
      BaseURL    : {<< >>},
      Timeout    : {ZeroDuration},
      Retries    : (-1)..MaxCfgRetries,
      RetryDelay : {ZeroDuration, TenMillis, HugeDelay} ]

\* NewClient returns (nil, error) for this Config
NewClientFails(cfg) == cfg.APIKey = ""

\* (nil, fmt.Errorf("API key is required"))
NoClient == [goType |-> "nil"]

\* plausible bug: the Config is copied as it is, no default is applied
NewClientNoDefaults(cfg) ==
    [ baseURL    |-> cfg.BaseURL,
      apiKey     |-> cfg.APIKey,
      timeout    |-> cfg.Timeout,
      retries    |-> cfg.Retries,
      retryDelay |-> cfg.RetryDelay ]

\* the client NewClient returns for a Config with a non-empty APIKey
NewClient(cfg) ==
    [ baseURL    |-> TrimSuffix(IF cfg.BaseURL = << >> THEN DefaultBaseURL
                                ELSE cfg.BaseURL),
      apiKey     |-> cfg.APIKey,
      timeout    |-> IF cfg.Timeout = ZeroDuration THEN DefaultTimeout
                     ELSE cfg.Timeout,
      retries    |-> IF cfg.Retries = 0 THEN DefaultRetries
                     ELSE cfg.Retries,
      retryDelay |-> IF cfg.RetryDelay = ZeroDuration THEN DefaultRetryDelay
                     ELSE cfg.RetryDelay ]

---------------------------------------------------------------------------
(* Outcomes of one send, as the environment produces them.                 *)

TransportFailure == 0

Statuses == {200, 204, 302, 400, 401, 403, 404, 418, 429, 500, 502, 503, 504}

\* what io.ReadAll and json.Unmarshal make of the response body:
\*   "unreadable"  io.ReadAll fails
\*   "empty"       zero bytes
\*   "json"        the JSON object {"error":"not found"} (decodes into
\*                 ErrorResponse and into result)
\*   "jsonmsg"     the JSON object {"error":"bad_request","message":"license
\*                 key is required"} (decodes likewise)
\*   "text"        not JSON
Bodies == {"unreadable", "empty", "json", "jsonmsg", "text"}

\* errorResp.Error after json.Unmarshal(body, &errorResp)
EnvelopeError(body) ==
    IF body = "json" THEN "not found"
    ELSE IF body = "jsonmsg" THEN "bad_request" ELSE ""

\* errorResp.Message after json.Unmarshal(body, &errorResp)
EnvelopeMessage(body) ==
    IF body = "jsonmsg" THEN "license key is required" ELSE ""

Outcomes ==
    { [status |-> TransportFailure, body |-> "none"] }
    \cup [status : Statuses, body : Bodies]

NoOutcome == [status |-> -1, body |-> "none"]

---------------------------------------------------------------------------
(* Error values.  goType is the dynamic type of the Go error, Type the     *)
(* taxonomy tag of errors.go (empty when the value carries none), attempt  *)
(* the loop iteration that created the value.                              *)

Nil == [goType |-> "nil", StatusCode |-> 0, Message |-> "", Type |-> "",
        attempt |-> -1]

\* err of c.httpClient.Do(req)
DoError(n) ==
    [goType |-> "*url.Error", StatusCode |-> 0, Message |-> "transport",
     Type |-> "", attempt |-> n]

\* err of io.ReadAll(resp.Body)
ReadError(n) ==
    [goType |-> "readError", StatusCode |-> 0, Message |-> "read",
     Type |-> "", attempt |-> n]

\* fmt.Errorf("HTTP %d: %s", resp.StatusCode, string(body))
HTTPTextError(statusCode, body, n) ==
    [goType |-> "*errors.errorString", StatusCode |-> statusCode,
     Message |-> body, Type |-> "", attempt |-> n]

\* &LicenseChainError{Message: errorResp.Error, StatusCode: resp.StatusCode, ...}
APIError(statusCode, body, n) ==
    [goType |-> "*LicenseChainError", StatusCode |-> statusCode,
     Message |-> EnvelopeError(body), Type |-> "", attempt |-> n]

\* plausible bug: the error of json.Unmarshal is dropped
SwallowedDecodeError(n) == Nil

\* err of json.Unmarshal(body, result)
DecodeError(n) ==
    [goType |-> "*json.SyntaxError", StatusCode |-> 0, Message |-> "decode",
     Type |-> "", attempt |-> n]

\* err of json.Marshal(body) or http.NewRequestWithContext in newRequest
ConstructionError(build) ==
    [goType |-> IF build = "marshalError" THEN "*json.UnsupportedValueError"
                ELSE "*url.Error",
     StatusCode |-> 0, Message |-> build, Type |-> "", attempt |-> -1]

\* json.Unmarshal(body, &errorResp) succeeds
DecodesAsEnvelope(body) == body \in {"json", "jsonmsg"}

\* json.Unmarshal(body, result) succeeds
DecodesAsResult(body) == body \in {"json", "jsonmsg"}

---------------------------------------------------------------------------
(* Requests.                                                               *)

\* what the caller passes to a public operation: the license key, and what
\* json.Marshal and http.NewRequestWithContext make of body and path
AllArgs ==
    [ licenseKey : {"", "ABCDEFGHIJKLMNOPQRSTUVWXYZ012345"},
      build      : {"ok", "marshalError", "urlError"} ]

\* the arguments of the calls of Spec
SpecArgs ==
    { [licenseKey |-> "ABCDEFGHIJKLMNOPQRSTUVWXYZ012345", build |-> "ok"] }

NoRequest == [by |-> "none", headers |-> << >>, licenseKey |-> ""]

\* the request newRequest returns
NewRequest(c, a) ==
    [ by         |-> "client.LicenseChainClient",
      headers    |-> ("Authorization" :> << "Bearer ", c.apiKey >>)
                     @@ ("User-Agent" :> << "LicenseChain-Go-SDK/1.0.0" >>)
                     @@ ("Accept" :> << "application/json" >>)
                     @@ ("Content-Type" :> << "application/json" >>),
      licenseKey |-> a.licenseKey ]

\* the request Client.ValidateLicense of package licensechain builds
LegacyRequest(a) ==
    [ by         |-> "licensechain.Client",
      headers    |-> ("Content-Type" :> << "application/json" >>),
      licenseKey |-> a.licenseKey ]

---------------------------------------------------------------------------
(* LicenseChainClient.do.                                                  *)

\* plausible bug: every client or server error is retried
IsRetryableAny4xx(statusCode) == statusCode >= 400

IsRetryableError(statusCode) == statusCode = 429 \/ statusCode >= 500

\* resp.IsSuccess()
IsSuccess(statusCode) == statusCode >= 200 /\ statusCode < 300

\* plausible bug: the loop stops one iteration early
LoopCondStrict(n, retries) == n < retries

\* i <= c.retries, the condition of the for loop
LoopCond(n, retries) == n <= retries

\* plausible bug: a retry is started without looking at the budget
NoBudgetCheck(n, retries) == TRUE

\* i < c.retries, the guard of every retry
HasBudget(n, retries) == n < retries

\* plausible bug: the first error of the call is kept
KeepFirstErr(prev, err) == IF prev = Nil THEN err ELSE prev

\* lastErr = err
SetLastErr(prev, err) == err

\* plausible bug: the success path returns the error of an earlier attempt
ReturnLastErrOnSuccess(prev) == prev

\* return nil
SuccessReturn(prev) == Nil

\* what req.Body has to give to the next c.httpClient.Do(req). newRequest
\* wraps the JSON in one bytes.Buffer and do hands the same req to every
\* send: once a send has read the buffer it is empty. net/http then either
\* rewinds it through req.GetBody (the request went to a reused connection
\* and nothing was written) or fails the send with "http: ContentLength=n
\* with Body length 0" (fresh connection); which one is up to the
\* connection pool and the server.
BodyOffered(read) == IF read THEN {"full", "drained"} ELSE {"full"}

\* whether the buffer has been read once the send with outcome o is over: a
\* send that got a response wrote the request; a failed send may have
\* failed before or after writing it
BodyReadAfter(read, o) ==
    IF read \/ o.status # TransportFailure THEN {TRUE} ELSE BOOLEAN

\* plausible bug: the error of newRequest is ignored and do is entered
BuildNeverFails(a) == FALSE

\* req, err := c.newRequest(...); if err != nil { return err }
BuildFails(a) == a.build # "ok"

\* no call has been made yet
CallIdle ==
    /\ pc = "idle"
    /\ hasResult = FALSE
    /\ i = 0
    /\ lastErr = Nil
    /\ ret = Nil
    /\ decoded = FALSE
    /\ cancelled = FALSE
    /\ attempts = 0
    /\ sleeps = << >>
    /\ observed = << >>
    /\ last = NoOutcome
    /\ req = NoRequest
    /\ sent = << >>
    /\ bodyRead = FALSE
    /\ bodies = << >>

\* no webhook has been received
NoWebhook ==
    [op |-> "none", state |-> "idle"]

\* RetryWithBackoff has not been called
NoRetry ==
    [state |-> "idle"]

\* the helpers outside the client are not in use
HelpersIdle ==
    /\ wh = NoWebhook
    /\ rwb = NoRetry

\* no NewClient call and no concurrent call is in progress
OthersIdle ==
    /\ config = << >>
    /\ newErr = Nil
    /\ calls = << >>
    /\ HelpersIdle

Init ==
    /\ client \in { NewClient(cfg) : cfg \in Configs }
    /\ args \in SpecArgs
    /\ OthersIdle
    /\ CallIdle


\* a public operation calls get / post / patch / delete: newRequest, then
\* do is entered, or the error of newRequest is returned
Start ==
    /\ pc = "idle"
    /\ \E r \in BOOLEAN : hasResult' = r
    /\ IF ~BuildFails(args)
       THEN /\ req' = NewRequest(client, args)
            /\ pc' = "loop"
            /\ ret' = ret
       ELSE /\ req' = req
            /\ pc' = "done"
            /\ ret' = ConstructionError(args.build)
    /\ i' = 0
    /\ lastErr' = Nil
    /\ UNCHANGED << client, decoded, cancelled, attempts, sleeps,
                    observed, last, args, sent >>
    /\ UNCHANGED others
    /\ UNCHANGED << bodyRead, bodies >>

\* the caller's context is cancelled while the call runs
Cancel ==
    /\ pc \in {"loop", "sleep"}
    /\ ~cancelled
    /\ cancelled' = TRUE
    /\ UNCHANGED << client, pc, hasResult, i, lastErr, ret, decoded,
                    attempts, sleeps, observed, last, args, req, sent >>
    /\ UNCHANGED others
    /\ UNCHANGED << bodyRead, bodies >>

\* the state after `time.Sleep(Backoff); continue`
Retry(err, path) ==
    /\ pc' = "sleep"
    /\ lastErr' = SetLastErr(lastErr, err)
    /\ sleeps' = Append(sleeps, [delay |-> Backoff(client.retryDelay, i),
                                 path |-> path, after |-> i])
    /\ UNCHANGED << ret, decoded >>

\* the state after `return err`
Return(err, filled) ==
    /\ pc' = "done"
    /\ ret' = err
    /\ decoded' = filled
    /\ UNCHANGED sleeps

\* one iteration of the for loop, from httpClient.Do to the sleep or return
Attempt ==
    /\ pc = "loop"
    /\ LoopCond(i, client.retries)
    /\ \E o \in Outcomes, b \in BodyOffered(bodyRead) :
        /\ cancelled => o.status = TransportFailure
        /\ (b = "drained") => o.status = TransportFailure
        /\ attempts' = attempts + 1
        /\ observed' = Append(observed, o.status)
        /\ last' = o
        /\ sent' = Append(sent, req)
        /\ bodies' = Append(bodies, b)
        /\ \E r \in BodyReadAfter(bodyRead, o) : bodyRead' = r
        /\ IF o.status = TransportFailure
           THEN IF HasBudget(i, client.retries)
                THEN Retry(DoError(i), "transport")
                ELSE /\ Return(DoError(i), FALSE)
                     /\ lastErr' = SetLastErr(lastErr, DoError(i))
           ELSE IF o.body = "unreadable"
           THEN IF HasBudget(i, client.retries) /\ IsRetryableError(o.status)
                THEN Retry(ReadError(i), "read")
                ELSE /\ Return(ReadError(i), FALSE)
                     /\ lastErr' = SetLastErr(lastErr, ReadError(i))
           ELSE IF ~IsSuccess(o.status)
           THEN LET e == IF DecodesAsEnvelope(o.body)
                         THEN APIError(o.status, o.body, i)
                         ELSE HTTPTextError(o.status, o.body, i)
                IN IF HasBudget(i, client.retries) /\ IsRetryableError(o.status)
                   THEN Retry(e, "status")
                   ELSE /\ Return(SetLastErr(lastErr, e), FALSE)
                        /\ lastErr' = SetLastErr(lastErr, e)
           ELSE IF hasResult /\ o.body # "empty"
           THEN IF DecodesAsResult(o.body)
                THEN /\ Return(SuccessReturn(lastErr), TRUE)
                     /\ UNCHANGED lastErr
                ELSE /\ Return(DecodeError(i), FALSE)
                     /\ UNCHANGED lastErr
           ELSE /\ Return(SuccessReturn(lastErr), FALSE)
                /\ UNCHANGED lastErr
    /\ UNCHANGED << client, hasResult, i, cancelled, args, req >>
    /\ UNCHANGED others

\* time.Sleep returns; `continue` runs the loop's i++
Wake ==
    /\ pc = "sleep"
    /\ pc' = "loop"
    /\ i' = i + 1
    /\ UNCHANGED << client, hasResult, lastErr, ret, decoded, cancelled,
                    attempts, sleeps, observed, last, args, req, sent >>
    /\ UNCHANGED others
    /\ UNCHANGED << bodyRead, bodies >>

\* the loop condition fails: `return lastErr` after the loop
LoopExit ==
    /\ pc = "loop"
    /\ ~LoopCond(i, client.retries)
    /\ pc' = "done"
    /\ ret' = lastErr
    /\ UNCHANGED << client, hasResult, i, lastErr, decoded, cancelled,
                    attempts, sleeps, observed, last, args, req, sent >>
    /\ UNCHANGED others
    /\ UNCHANGED << bodyRead, bodies >>

Next == Start \/ Cancel \/ Attempt \/ Wake \/ LoopExit

Spec == Init /\ [][Next]_vars

---------------------------------------------------------------------------
(* The public operations with every argument, and Client.ValidateLicense   *)
(* of the package licensechain.                                            *)

\* the Configs of SpecOps: two API keys, one retry delay
OpsConfigs ==
    [ APIKey     : {"key-1", "key-2"},
      BaseURL    : {<< >>},
      Timeout    : {ZeroDuration},
      Retries    : {-1} \cup 1..MaxCfgRetries,
      RetryDelay : {TenMillis} ]

InitOps ==
    /\ client \in { NewClient(cfg) : cfg \in OpsConfigs }
    /\ args \in AllArgs
    /\ OthersIdle
    /\ CallIdle

\* Client.ValidateLicense of package licensechain: one request, no retry,
\* the body decoded whatever the status
LegacyValidateLicense ==
    /\ pc = "idle"
    /\ args.build # "marshalError"
    /\ hasResult' = TRUE
    /\ IF args.build = "urlError"
       THEN /\ ret' = ConstructionError(args.build)
            /\ UNCHANGED << req, sent, attempts, observed, last, decoded,
                            bodyRead, bodies >>
       ELSE \E o \in Outcomes :
            /\ req' = LegacyRequest(args)
            /\ sent' = Append(sent, LegacyRequest(args))
            /\ bodies' = Append(bodies, "full")
            /\ bodyRead' \in BodyReadAfter(bodyRead, o)
            /\ attempts' = attempts + 1
            /\ observed' = Append(observed, o.status)
            /\ last' = o
            /\ ret' = IF o.status = TransportFailure THEN DoError(0)
                      ELSE IF DecodesAsResult(o.body) THEN Nil
                      ELSE DecodeError(0)
            /\ decoded' = (o.status # TransportFailure
                            /\ DecodesAsResult(o.body))
    /\ pc' = "done"
    /\ UNCHANGED << client, i, lastErr, cancelled, sleeps, args >>
    /\ UNCHANGED others

NextOps ==
    Start \/ Cancel \/ Attempt \/ Wake \/ LoopExit \/ LegacyValidateLicense

SpecOps == InitOps /\ [][NextOps]_vars

---------------------------------------------------------------------------
(* One call on a client whose Config is known: Retries set to 0, to a      *)
(* positive and to a negative count.                                       *)

\* the Configs of SpecFromConfig
ExplicitConfigs ==
    [ APIKey     : {"key-1"},
      BaseURL    : {<< >>},
      Timeout    : {ZeroDuration},
      Retries    : {-1, 0, 1},
      RetryDelay : {TenMillis} ]

\* client, err := NewClient(config) with err == nil
InitFromConfig ==
    /\ config \in ExplicitConfigs
    /\ client = NewClient(config)
    /\ newErr = Nil
    /\ calls = << >>
    /\ HelpersIdle
    /\ args \in SpecArgs
    /\ CallIdle

SpecFromConfig == InitFromConfig /\ [][Next]_vars

---------------------------------------------------------------------------
(* NewClient on every Config.                                              *)

\* the Configs of SpecNewClient: every field set and unset
FullConfigs ==
    [ APIKey     : {"", "key-1", "key-2"},
      BaseURL    : {<< >>, << "https://custom.test" >>,
                    << "https://custom.test", "/" >>},
      Timeout    : {ZeroDuration, FiveSeconds},
      Retries    : (-1)..MaxCfgRetries,
      RetryDelay : {ZeroDuration, TenMillis} ]

\* fmt.Errorf("API key is required")
APIKeyRequired ==
    [goType |-> "*errors.errorString", StatusCode |-> 0,
     Message |-> "API key is required", Type |-> "", attempt |-> -1]

\* a Config is about to be passed to NewClient
InitNew ==
    /\ config \in FullConfigs
    /\ client = NoClient
    /\ newErr = Nil
    /\ calls = << >>
    /\ HelpersIdle
    /\ args \in SpecArgs
    /\ pc = "new"
    /\ hasResult = FALSE
    /\ i = 0
    /\ lastErr = Nil
    /\ ret = Nil
    /\ decoded = FALSE
    /\ cancelled = FALSE
    /\ attempts = 0
    /\ sleeps = << >>
    /\ observed = << >>
    /\ last = NoOutcome
    /\ req = NoRequest
    /\ sent = << >>
    /\ bodyRead = FALSE
    /\ bodies = << >>

\* NewClient(config) returns
Construct ==
    /\ pc = "new"
    /\ IF NewClientFails(config)
       THEN /\ client' = NoClient
            /\ newErr' = APIKeyRequired
       ELSE /\ client' = NewClient(config)
            /\ newErr' = Nil
    /\ pc' = "idle"
    /\ UNCHANGED << hasResult, i, lastErr, ret, decoded, cancelled, attempts,
                    sleeps, observed, last, args, req, sent, bodyRead, bodies,
                    config, calls, wh, rwb >>

NextNew == Construct

SpecNewClient == InitNew /\ [][NextNew]_vars

---------------------------------------------------------------------------
(* Several calls of do interleaved on one client. Each call has the locals *)
(* of do; the client is the receiver every call reads.                     *)

\* number of goroutines calling the client
NumCalls == 2

CallIds == 1..NumCalls

\* the Configs of SpecConc
ConcConfigs ==
    [ APIKey     : {"key-1"},
      BaseURL    : {<< >>},
      Timeout    : {ZeroDuration},
      Retries    : {-1, 1, 2},
      RetryDelay : {TenMillis} ]

\* the outcomes of SpecConc: one of each path through the loop body
ConcOutcomes ==
    { [status |-> TransportFailure, body |-> "unreadable"],
      [status |-> 200, body |-> "json"],
      [status |-> 200, body |-> "text"],
      [status |-> 404, body |-> "json"],
      [status |-> 503, body |-> "text"],
      [status |-> 429, body |-> "unreadable"] }

\* the locals of a call that has not entered do
IdleLocals ==
    [pc |-> "idle", i |-> 0, lastErr |-> Nil, ret |-> Nil, decoded |-> FALSE,
     attempts |-> 0, sleeps |-> << >>, seen |-> << >>]

\* the locals after `time.Sleep(Backoff); continue`
RetryLocals(l, cl, err) ==
    [l EXCEPT !.pc = "sleep",
              !.lastErr = SetLastErr(l.lastErr, err),
              !.sleeps = Append(l.sleeps, Backoff(cl.retryDelay, l.i))]

\* the locals after `return err`
ReturnLocals(l, err, filled) ==
    [l EXCEPT !.pc = "done", !.ret = err, !.decoded = filled]

\* one iteration of the for loop of do on the locals l of one call, the
\* send having the outcome o; result is not nil, as in ValidateLicense
DoStep(l0, o, cl) ==
    LET l == [l0 EXCEPT !.attempts = @ + 1, !.seen = Append(@, o)]
    IN IF o.status = TransportFailure
       THEN IF HasBudget(l.i, cl.retries)
            THEN RetryLocals(l, cl, DoError(l.i))
            ELSE ReturnLocals([l EXCEPT !.lastErr = DoError(l.i)],
                              DoError(l.i), FALSE)
       ELSE IF o.body = "unreadable"
       THEN IF HasBudget(l.i, cl.retries) /\ IsRetryableError(o.status)
            THEN RetryLocals(l, cl, ReadError(l.i))
            ELSE ReturnLocals([l EXCEPT !.lastErr = ReadError(l.i)],
                              ReadError(l.i), FALSE)
       ELSE IF ~IsSuccess(o.status)
       THEN LET e == IF DecodesAsEnvelope(o.body)
                     THEN APIError(o.status, o.body, l.i)
                     ELSE HTTPTextError(o.status, o.body, l.i)
            IN IF HasBudget(l.i, cl.retries) /\ IsRetryableError(o.status)
               THEN RetryLocals(l, cl, e)
               ELSE ReturnLocals([l EXCEPT !.lastErr = SetLastErr(@, e)],
                                 SetLastErr(l.lastErr, e), FALSE)
       ELSE IF o.body # "empty"
       THEN IF DecodesAsResult(o.body)
            THEN ReturnLocals(l, SuccessReturn(l.lastErr), TRUE)
            ELSE ReturnLocals(l, DecodeError(l.i), FALSE)
       ELSE ReturnLocals(l, SuccessReturn(l.lastErr), FALSE)

\* plausible bug: the attempt counter is a field of the client, every
\* call's loop advances it
BumpAll(cs, c) == [k \in DOMAIN cs |-> [cs[k] EXCEPT !.i = @ + 1]]

\* i++ of the call c: i is declared by the for statement of do
Bump(cs, c) == [cs EXCEPT ![c].i = @ + 1]

\* a client, and NumCalls goroutines about to call ValidateLicense on it
InitConc ==
    /\ config \in ConcConfigs
    /\ client = NewClient(config)
    /\ newErr = Nil
    /\ calls = [c \in CallIds |-> IdleLocals]
    /\ HelpersIdle
    /\ args \in SpecArgs
    /\ CallIdle

\* the variables of the single call of Spec, not used here
single == << pc, hasResult, i, lastErr, ret, decoded, cancelled, attempts,
            sleeps, observed, last, args, req, sent, bodyRead, bodies >>

\* call c: newRequest succeeds and do is entered
ConcStart(c) ==
    /\ calls[c].pc = "idle"
    /\ calls' = [calls EXCEPT ![c].pc = "loop"]
    /\ UNCHANGED << client, config, newErr, single, wh, rwb >>

\* call c: one iteration of the loop
ConcAttempt(c) ==
    /\ calls[c].pc = "loop"
    /\ LoopCond(calls[c].i, client.retries)
    /\ \E o \in ConcOutcomes :
          calls' = [calls EXCEPT ![c] = DoStep(@, o, client)]
    /\ UNCHANGED << client, config, newErr, single, wh, rwb >>

\* call c: time.Sleep returns, i++
ConcWake(c) ==
    /\ calls[c].pc = "sleep"
    /\ calls' = [Bump(calls, c) EXCEPT ![c].pc = "loop"]
    /\ UNCHANGED << client, config, newErr, single, wh, rwb >>

\* call c: the loop condition fails, `return lastErr`
ConcLoopExit(c) ==
    /\ calls[c].pc = "loop"
    /\ ~LoopCond(calls[c].i, client.retries)
    /\ calls' = [calls EXCEPT ![c].pc = "done", ![c].ret = calls[c].lastErr]
    /\ UNCHANGED << client, config, newErr, single, wh, rwb >>

NextConc ==
    \E c \in CallIds :
        ConcStart(c) \/ ConcAttempt(c) \/ ConcWake(c) \/ ConcLoopExit(c)

SpecConc == InitConc /\ [][NextConc]_vars

---------------------------------------------------------------------------
(* RetryWithBackoff(fn, maxRetries, initialDelay) of the helpers.          *)

\* largest maxRetries the helper is called with
MaxRetriesArg == 4

\* what one call of fn returns: nil or one of two errors
FnResults == {"nil", "e1", "e2"}

\* the error returned by call number n of fn
FnError(kind, n) ==
    [goType |-> "error", StatusCode |-> 0, Message |-> kind, Type |-> "",
     attempt |-> n]

\* most negative and largest int64
MinInt64 == {DurationBits - 1}
MaxInt64 == 0..(DurationBits - 2)

\* position of the highest one bit of d, -1 for zero
TopBit(d) == IF d = {} THEN -1 ELSE CHOOSE k \in d : \A j \in d : j <= k

\* time.Duration(float64(initialDelay) * math.Pow(2, float64(n))) for a
\* non-negative d of at most 53 significant bits (float64(d) is exact):
\* the product is exact, and the conversion back gives it when it is below
\* 2^63; above, the Go specification leaves the converted value to the
\* implementation (the most negative int64 on amd64, the largest on arm64)
FloatBackoffs(d, n) ==
    IF TopBit(d) + n <= DurationBits - 2 THEN {Shl(d, n)}
    ELSE {MinInt64, MaxInt64}

\* plausible bug: the helper sleeps after every failed call
SleepAfterEveryFailure(n, maxRetries) == TRUE

\* i < maxRetries-1, the guard of time.Sleep
SleepsAfter(n, maxRetries) == n < maxRetries - 1

\* RetryWithBackoff has been entered: var lastErr error; i := 0
InitRetry ==
    /\ rwb \in [ state        : {"loop"},
                  maxRetries   : (-1)..MaxRetriesArg,
                  initialDelay : {ZeroDuration, TenMillis, HugeDelay},
                  i            : {0},
                  lastErr      : {Nil},
                  result       : {Nil},
                  outcomes     : {<< >>},
                  sleeps       : {<< >>} ]
    /\ wh = NoWebhook
    /\ client = NoClient
    /\ config = << >>
    /\ newErr = Nil
    /\ calls = << >>
    /\ args \in SpecArgs
    /\ CallIdle

\* the variables RetryWithBackoff does not touch
notRetry == << client, config, newErr, calls, wh, single >>

\* one iteration of the loop: fn is called; on nil the helper returns, on
\* an error it sleeps if another call follows, else goes on to i++
RetryCall ==
    /\ rwb.state = "loop"
    /\ rwb.i < rwb.maxRetries
    /\ \E r \in FnResults :
        LET called == [rwb EXCEPT !.outcomes = Append(@, r)]
        IN IF r = "nil"
           THEN rwb' = [called EXCEPT !.state = "done", !.result = Nil]
           ELSE LET failed == [called EXCEPT
                                  !.lastErr = FnError(r, rwb.i)]
                IN IF SleepsAfter(rwb.i, rwb.maxRetries)
                   THEN \E d \in FloatBackoffs(rwb.initialDelay, rwb.i) :
                          rwb' = [failed EXCEPT
                                    !.state = "sleep",
                                    !.sleeps = Append(@, [delay |-> d,
                                                          after |-> rwb.i])]
                   ELSE rwb' = [failed EXCEPT !.i = @ + 1]
    /\ UNCHANGED notRetry

\* time.Sleep returns, i++
RetryWake ==
    /\ rwb.state = "sleep"
    /\ rwb' = [rwb EXCEPT !.state = "loop", !.i = @ + 1]
    /\ UNCHANGED notRetry

\* the loop condition fails: return lastErr
RetryExit ==
    /\ rwb.state = "loop"
    /\ ~(rwb.i < rwb.maxRetries)
    /\ rwb' = [rwb EXCEPT !.state = "done", !.result = rwb.lastErr]
    /\ UNCHANGED notRetry

NextRetry == RetryCall \/ RetryWake \/ RetryExit

SpecRetry == InitRetry /\ [][NextRetry]_vars

---------------------------------------------------------------------------
(* Webhooks: CreateWebhookSignature / VerifyWebhookSignature of the        *)
(* helpers and WebhookHandler of src/client/webhook.go.  Payloads, secrets *)
(* and digests are sequences of bytes, signatures sequences of characters. *)

\* number of bytes of a digest (32 for SHA-256)
DigestLen == 2

RECURSIVE SumSeq(_)
SumSeq(q) == IF q = << >> THEN 0 ELSE Head(q) + SumSeq(Tail(q))

\* h := hmac.New(sha256.New, secret); h.Write(payload); h.Sum(nil): a fixed
\* function of key and message with DigestLen bytes of output. HMAC-SHA256
\* itself is library code; a small mixing function stands for it.
Digest(key, msg) ==
    [ k \in 1..DigestLen |->
        (SumSeq(key) * (2 * k + 5) + SumSeq(msg) * (k + 11)
            + Len(msg) * 7 + k) % 256 ]

HexDigits ==
    << "0", "1", "2", "3", "4", "5", "6", "7",
       "8", "9", "a", "b", "c", "d", "e", "f" >>

RECURSIVE EncodeToString(_)
\* hex.EncodeToString: two lower-case hexadecimal digits for each byte
EncodeToString(bytes) ==
    IF bytes = << >> THEN << >>
    ELSE << HexDigits[(Head(bytes) \div 16) + 1],
            HexDigits[(Head(bytes) % 16) + 1] >>
         \o EncodeToString(Tail(bytes))

CreateWebhookSignature(payload, secret) ==
    EncodeToString(Digest(secret, payload))

\* plausible bug: only the common prefix of the two values is compared
PrefixEqual(x, y) ==
    \A k \in 1..(IF Len(x) <= Len(y) THEN Len(x) ELSE Len(y)) : x[k] = y[k]

\* hmac.Equal: same length and the same byte at every position
HmacEqual(x, y) ==
    /\ Len(x) = Len(y)
    /\ \A k \in 1..Len(x) : x[k] = y[k]

VerifyWebhookSignature(payload, signature, secret) ==
    HmacEqual(signature, CreateWebhookSignature(payload, secret))

\* the default of NewWebhookHandler, in seconds
DefaultTolerance == 300

NewWebhookHandler(secret, tolerance) ==
    [ secret    |-> secret,
      tolerance |-> IF tolerance <= 0 THEN DefaultTolerance ELSE tolerance ]

\* WebhookHandler.VerifySignature
VerifySignature(h, payload, signature) ==
    VerifyWebhookSignature(payload, signature, h.secret)

\* time.Parse(time.RFC3339, timestamp) then t.Unix(). A timestamp string
\* is its layout, the wall clock time it shows (in seconds) and the zone
\* offset it ends with.
ParseTimestamp(ts) ==
    IF ts.layout = "rfc3339"
    THEN [err |-> FALSE, unix |-> ts.clock - ts.zone]
    ELSE [err |-> TRUE, unix |-> 0]

\* plausible bug: the difference is not made positive
NoAbs(x) == x

\* if timeDiff < 0 { timeDiff = -timeDiff }
Abs(x) == IF x < 0 THEN -x ELSE x

\* an error made by fmt.Errorf
PlainError(message) ==
    [goType |-> "*errors.errorString", StatusCode |-> 0, Message |-> message,
     Type |-> "", attempt |-> -1]

NewValidationError(message) ==
    [goType |-> "*LicenseChainError", StatusCode |-> 0,
     Message |-> "Validation error: " \o message,
     Type |-> "validation_error", attempt |-> -1]

NewAuthenticationError(message) ==
    [goType |-> "*LicenseChainError", StatusCode |-> 0,
     Message |-> "Authentication error: " \o message,
     Type |-> "authentication_error", attempt |-> -1]

\* WebhookHandler.VerifyTimestamp, GetCurrentTimestamp() returning now
VerifyTimestamp(h, ts, now) ==
    LET parsed == ParseTimestamp(ts)
        timeDiff == Abs(now - parsed.unix)
    IN IF parsed.err THEN PlainError("invalid timestamp format")
       ELSE IF timeDiff > h.tolerance
       THEN PlainError("webhook timestamp too old")
       ELSE Nil

\* json.MarshalIndent(eventData["data"], "", "  ")
JSONSerialize(data) ==
    CASE data = "object"  -> [err |-> FALSE, str |-> << 123, 125 >>]
      [] data = "list"    -> [err |-> FALSE, str |-> << 91, 10, 93 >>]
      [] data = "channel" -> [err |-> TRUE, str |-> << >>]

\* the handler the switch of ProcessEvent calls for an event type, "none"
\* for the default branch
Handler(eventType) ==
    CASE eventType = "license.created"   -> "handleLicenseCreated"
      [] eventType = "license.updated"   -> "handleLicenseUpdated"
      [] eventType = "license.revoked"   -> "handleLicenseRevoked"
      [] eventType = "license.expired"   -> "handleLicenseExpired"
      [] eventType = "user.created"      -> "handleUserCreated"
      [] eventType = "user.updated"      -> "handleUserUpdated"
      [] eventType = "user.deleted"      -> "handleUserDeleted"
      [] eventType = "product.created"   -> "handleProductCreated"
      [] eventType = "product.updated"   -> "handleProductUpdated"
      [] eventType = "product.deleted"   -> "handleProductDeleted"
      [] eventType = "payment.completed" -> "handlePaymentCompleted"
      [] eventType = "payment.failed"    -> "handlePaymentFailed"
      [] eventType = "payment.refunded"  -> "handlePaymentRefunded"
      [] OTHER -> "none"

\* WebhookHandler.ProcessEvent: the error it returns, the handler it ran and
\* the steps it took, in order
ProcessEventResult(h, ev, now) ==
    LET ser == JSONSerialize(ev.data)
        stop(e, steps) == [err |-> e, ran |-> "none", checks |-> steps]
    IN IF ser.err
       THEN stop(PlainError("invalid event data"), << "JSONSerialize" >>)
       ELSE IF ~ev.signature.ok
       THEN stop(NewValidationError("Missing signature"),
                 << "JSONSerialize", "signature" >>)
       ELSE IF ~ev.timestamp.ok
       THEN stop(NewValidationError("Missing timestamp"),
                 << "JSONSerialize", "signature", "timestamp" >>)
       ELSE IF VerifyTimestamp(h, ev.timestamp.val, now) # Nil
       THEN stop(VerifyTimestamp(h, ev.timestamp.val, now),
                 << "JSONSerialize", "signature", "timestamp",
                    "VerifyTimestamp" >>)
       ELSE IF ~VerifySignature(h, ser.str, ev.signature.val)
       THEN stop(NewAuthenticationError("Invalid webhook signature"),
                 << "JSONSerialize", "signature", "timestamp",
                    "VerifyTimestamp", "VerifySignature" >>)
       ELSE IF ~ev.type.ok
       THEN stop(NewValidationError("Missing event type"),
                 << "JSONSerialize", "signature", "timestamp",
                    "VerifyTimestamp", "VerifySignature", "type" >>)
       ELSE [err |-> Nil, ran |-> Handler(ev.type.val),
             checks |-> << "JSONSerialize", "signature", "timestamp",
                           "VerifyTimestamp", "VerifySignature", "type",
                           "switch" >>]

Payloads == { << 123, 125 >>, << 91, 10, 93 >>, << 34, 97, 34 >> }

Secrets == { << 115 >>, << 115, 50 >> }

\* the signatures a caller may present for a payload signed with a secret:
\* the right one, the right one with one character replaced, cut, extended,
\* the empty one, and the right ones of the other payloads and secrets
Presented(payload, secret) ==
    LET sig == CreateWebhookSignature(payload, secret)
    IN {sig}
       \cup { [sig EXCEPT ![k] = c] : k \in 1..Len(sig), c \in {"0", "f", "A"} }
       \cup { SubSeq(sig, 1, Len(sig) - 1), Append(sig, "0"), << >> }
       \cup { CreateWebhookSignature(p, k) : p \in Payloads, k \in Secrets }

\* a value of eventData that is not a string, and one that is
Absent == [ok |-> FALSE, val |-> << >>]
Str(v) == [ok |-> TRUE, val |-> v]

NoTimestamp == [ok |-> FALSE, val |-> [layout |-> "", clock |-> 0, zone |-> 0]]

\* GetCurrentTimestamp()
Now == 100000

Timestamps ==
    { Str([layout |-> "rfc3339", clock |-> Now + d + z, zone |-> z]) :
        d \in {-301, -300, -3, -2, 0, 2, 3, 300, 301}, z \in {0, 3600} }
    \cup { Str([layout |-> "unix", clock |-> Now, zone |-> 0]), NoTimestamp }

\* the fields of wh that one operation does not use
VerifyOnly == [data |-> "object", timestamp |-> NoTimestamp, type |-> Absent]

\* VerifySignature is about to be called
VerifyInputs ==
    UNION { { [op |-> "verify", state |-> "received",
               handler |-> NewWebhookHandler(secret, 0),
               payload |-> payload, signature |-> Str(sig),
               data |-> VerifyOnly.data, timestamp |-> VerifyOnly.timestamp,
               type |-> VerifyOnly.type,
               verdict |-> FALSE, err |-> Nil, ran |-> "none",
               checks |-> << >>] : sig \in Presented(payload, secret) } :
            payload \in Payloads, secret \in Secrets }

\* ProcessEvent is about to be called with an event
ProcessInputs ==
    { [op |-> "process", state |-> "received",
       handler |-> NewWebhookHandler(<< 115 >>, tol),
       payload |-> << >>, signature |-> sig,
       data |-> data, timestamp |-> ts, type |-> ty,
       verdict |-> FALSE, err |-> Nil, ran |-> "none", checks |-> << >>] :
      tol \in {0, 2}, data \in {"object", "channel"},
      sig \in { Absent,
                Str(CreateWebhookSignature(<< 123, 125 >>, << 115 >>)),
                Str(CreateWebhookSignature(<< 123, 125 >>, << 115, 50 >>)) },
      ts \in Timestamps,
      ty \in { Absent, Str("license.created"), Str("payment.refunded"),
               Str("mystery") } }

InitWebhook ==
    /\ wh \in VerifyInputs \cup ProcessInputs
    /\ rwb = NoRetry
    /\ client = NoClient
    /\ config = << >>
    /\ newErr = Nil
    /\ calls = << >>
    /\ args \in SpecArgs
    /\ CallIdle

\* the variables the webhook handler does not touch
notWebhook == << client, config, newErr, calls, rwb, single >>

\* wh.VerifySignature(payload, signature) returns
VerifySignatureCall ==
    /\ wh.op = "verify"
    /\ wh.state = "received"
    /\ wh' = [wh EXCEPT
                !.state = "done",
                !.verdict = VerifySignature(wh.handler, wh.payload,
                                            wh.signature.val)]
    /\ UNCHANGED notWebhook

\* wh.ProcessEvent(eventData) returns
ProcessEvent ==
    /\ wh.op = "process"
    /\ wh.state = "received"
    /\ LET r == ProcessEventResult(wh.handler, wh, Now)
       IN wh' = [wh EXCEPT !.state = "done", !.err = r.err, !.ran = r.ran,
                           !.checks = r.checks]
    /\ UNCHANGED notWebhook

NextWebhook == VerifySignatureCall \/ ProcessEvent

SpecWebhook == InitWebhook /\ [][NextWebhook]_vars

---------------------------------------------------------------------------
(* Vocabulary of the properties.                                           *)

\* an outcome is retryable iff it is a transport failure, 429 or >= 500
RetryableOutcome(s) == s = TransportFailure \/ s = 429 \/ s >= 500

TwoXX(s) == s >= 200 /\ s <= 299

Min(a, b) == IF a <= b THEN a ELSE b

\* 1-based index of the first observed outcome that is not retryable
\* (0 when every observed outcome is retryable)
FirstNonRetryable ==
    LET nr == { j \in 1..Len(observed) : ~RetryableOutcome(observed[j]) }
    IN IF nr = {} THEN 0 ELSE CHOOSE j \in nr : \A k \in nr : j <= k

Done == pc = "done"

\* every attempt of the call saw the status s
AllObserved(s) ==
    /\ observed # << >>
    /\ \A j \in 1..Len(observed) : observed[j] = s

\* the body is a JSON object
JSONObject(body) == body \in {"json", "jsonmsg"}

\* the last attempt got a 2xx response whose body was read and, where a
\* result was requested and the body is not empty, decodes into it
GoodResponse ==
    /\ attempts >= 1
    /\ TwoXX(last.status)
    /\ last.body # "unreadable"
    /\ (hasResult /\ last.body # "empty") => JSONObject(last.body)

\* the kind the status-to-kind mapping of the specification assigns to a
\* status, written with the Type strings of errors.go
StatusKind(s) ==
    CASE s = 400 -> "validation_error"
      [] s \in {401, 403} -> "authentication_error"
      [] s = 404 -> "not_found_error"
      [] s = 429 -> "rate_limit_error"
      [] s \in {500, 502, 503, 504} -> "server_error"
      [] OTHER -> "http_error"

RECURSIVE Doubled(_, _)
\* d doubled n times in time.Duration arithmetic
Doubled(d, n) == IF n = 0 THEN d ELSE Doubled(Shl(d, 1), n - 1)

---------------------------------------------------------------------------
(* Properties.                                                             *)

\* C1: with a retry budget N = client.retries (N + 1 >= 0), a finished call
\* has made min(N + 1, k) sends, k the index of the first outcome that is
\* not retryable (transport failure, 429 and >= 500 are retryable); no call
\* ever makes more than N + 1 sends.
C1_AttemptCount ==
    (client.retries >= -1) =>
        /\ attempts = Len(observed)
        /\ attempts <= client.retries + 1
        /\ Done => attempts = IF FirstNonRetryable = 0
                              THEN client.retries + 1
                              ELSE Min(client.retries + 1, FirstNonRetryable)

C1_Witness ==
    /\ Done
    /\ client.retries = 3
    /\ observed = << 503, TransportFailure, 404 >>
    /\ attempts = 3

\* C2: for s in {500, 502, 503, 504, 429}, a call whose every attempt is
\* answered with s makes retries + 1 attempts and returns an error whose
\* kind is the one the status-to-kind mapping assigns to s.
C2_RetryThenMappedKind ==
    \A s \in {500, 502, 503, 504, 429} :
        (Done /\ client.retries >= 0 /\ AllObserved(s)
              /\ last.body # "unreadable") =>
            /\ attempts = client.retries + 1
            /\ ret.Type = StatusKind(s)

\* C3: a call whose first attempt receives 400, 401, 403, 404 or a 2xx
\* status makes exactly one send and no backoff sleep, whatever the budget.
C3_NoRetryOnFinalStatus ==
    (Len(observed) >= 1
        /\ (observed[1] \in {400, 401, 403, 404} \/ TwoXX(observed[1]))) =>
        /\ Done
        /\ attempts = 1
        /\ sleeps = << >>

C3_Witness ==
    /\ Done
    /\ client.retries = 3
    /\ observed = << 401 >>
    /\ attempts = 1
    /\ sleeps = << >>

\* C4: when every attempt ends in a transport failure the call makes
\* retries + 1 attempts and returns an error of kind network.
C4_TransportExhaustion ==
    (Done /\ client.retries >= 0 /\ AllObserved(TransportFailure)) =>
        /\ attempts = client.retries + 1
        /\ ret.Type = "network_error"

\* C5: a call that exhausts its budget on retryable outcomes returns the
\* error its last attempt produced, classified as that attempt was: the
\* transport error, the read error, or an error carrying the last status.
C5_LastErrorReturned ==
    (Done /\ attempts >= 1 /\ attempts = client.retries + 1
          /\ RetryableOutcome(last.status)) =>
        /\ ret # Nil
        /\ ret.attempt = attempts - 1
        /\ (last.status = TransportFailure) => ret.goType = "*url.Error"
        /\ (last.status # TransportFailure /\ last.body = "unreadable")
               => ret.goType = "readError"
        /\ (last.status # TransportFailure /\ last.body # "unreadable")
               => /\ ret.goType \in {"*LicenseChainError",
                                      "*errors.errorString"}
                  /\ ret.StatusCode = last.status

C5_Witness ==
    /\ Done
    /\ client.retries = 3
    /\ observed = << TransportFailure, 429, 503, 500 >>
    /\ ret.StatusCode = 500
    /\ ret.attempt = 3

\* C6: when the attempts before the last all ended in retryable outcomes
\* and the last attempt receives a 2xx response that is read and decoded,
\* the call ends there with a nil error and the decoded result, having made
\* exactly one send per observed outcome and one sleep between two sends.
C6_SuccessAfterRetries ==
    GoodResponse =>
        /\ Done
        /\ ret = Nil
        /\ attempts = Len(observed)
        /\ attempts <= client.retries + 1
        /\ \A j \in 1..(attempts - 1) : RetryableOutcome(observed[j])
        /\ Len(sleeps) = attempts - 1
        /\ (hasResult /\ JSONObject(last.body)) => decoded

C6_Witness ==
    /\ Done
    /\ client.retries = 3
    /\ observed = << 503, 503, 200 >>
    /\ attempts = 3
    /\ ret = Nil
    /\ decoded

\* C7: the j-th sleep of a call follows the zero-based attempt j - 1 and
\* lasts retryDelay * 2^(j-1) in time.Duration arithmetic, on the transport
\* failure, unreadable body and retryable status paths alike.
C7_ExponentialBackoff ==
    \A j \in 1..Len(sleeps) :
        /\ sleeps[j].after = j - 1
        /\ sleeps[j].delay = Doubled(client.retryDelay, j - 1)

C7_Witness ==
    /\ client.retryDelay = TenMillis
    /\ Len(sleeps) = 3
    /\ { sleeps[j].path : j \in 1..3 } = {"transport", "read", "status"}
    /\ sleeps[1].delay = FromNat(10000000)
    /\ sleeps[2].delay = FromNat(20000000)
    /\ sleeps[3].delay = FromNat(40000000)

\* C8: once the context is cancelled the call starts no new send and begins
\* no further backoff sleep.
C8_CancelAborts ==
    [][cancelled => (attempts' = attempts /\ Len(sleeps') = Len(sleeps))]_vars

\* C9: a call returns nil only if its final attempt obtained a 2xx response
\* whose body was read and decoded; a call whose final outcome is a transport
\* failure or a non-2xx status returns a non-nil error.
C9_NoErrorDropped ==
    /\ (Done /\ ret = Nil) => GoodResponse
    /\ (Done /\ attempts >= 1 /\ ~TwoXX(last.status)) => ret # Nil

\* C10: the error returned for a non-2xx response carries the kind fixed by
\* the status: 400 validation, 401/403 authentication, 404 not_found,
\* 429 rate_limit, 500/502/503/504 server, any other status http_error.
C10_KindFromStatus ==
    (Done /\ attempts >= 1 /\ last.status # TransportFailure
          /\ ~TwoXX(last.status) /\ last.body # "unreadable") =>
        ret.Type = StatusKind(last.status)

\* C11: a non-2xx response whose body does not decode as the error envelope
\* yields an error of kind unknown (http_error) that carries the raw status
\* code and the raw body text.
C11_UndecodableErrorBody ==
    (Done /\ attempts >= 1 /\ last.status # TransportFailure
          /\ ~TwoXX(last.status) /\ last.body \in {"empty", "text"}) =>
        /\ ret.Type = "http_error"
        /\ ret.StatusCode = last.status
        /\ ret.Message = last.body

\* C12: a 2xx response with a non-empty body that does not decode into the
\* requested result ends the call at that attempt with the decode error:
\* no further send, no sleep after it, no result, whatever budget remains.
C12_DecodeFailureNotRetried ==
    (attempts >= 1 /\ TwoXX(last.status) /\ hasResult /\ last.body = "text") =>
        /\ Done
        /\ ret # Nil
        /\ ret.goType = "*json.SyntaxError"
        /\ ret.attempt = attempts - 1
        /\ ~decoded
        /\ attempts = Len(observed)
        /\ Len(sleeps) = attempts - 1

C12_Witness ==
    /\ Done
    /\ client.retries = 3
    /\ hasResult
    /\ observed = << 200 >>
    /\ last.body = "text"
    /\ ret.goType = "*json.SyntaxError"
    /\ sleeps = << >>

\* C13: whether an attempt is followed by a retry, and the delay of that
\* retry, are fixed by the status (or transport failure) of the attempt and
\* the attempt index alone: retry iff the outcome is retryable and
\* i < retries, with delay retryDelay * 2^i, whatever the body was.
C13_RetryIgnoresBody ==
    [][ (attempts' = attempts + 1) =>
          /\ (pc' = "sleep") <=>
                (RetryableOutcome(last'.status) /\ i < client.retries)
          /\ (pc' # "sleep") => (pc' = "done" /\ sleeps' = sleeps)
          /\ (pc' = "sleep") =>
                /\ Len(sleeps') = Len(sleeps) + 1
                /\ sleeps'[Len(sleeps')].delay = Doubled(client.retryDelay, i)
      ]_vars

C13_Witness ==
    /\ observed = << 503, 503, 503 >>
    /\ Len(sleeps) = 3
    /\ sleeps[1].path = "read"
    /\ sleeps[2].path = "status"
    /\ last.body = "empty"
    /\ sleeps[1].delay = FromNat(10000000)
    /\ sleeps[2].delay = FromNat(20000000)
    /\ sleeps[3].delay = FromNat(40000000)

\* C19: for a non-2xx response whose body decodes as the envelope with a
\* non-empty message field, the message of the returned error includes that
\* message (texts are atomic here: the error's message is one field of the
\* envelope verbatim, so it includes the server's message iff it equals it).
C19_ServerMessageIncluded ==
    (Done /\ attempts >= 1 /\ last.status # TransportFailure
          /\ ~TwoXX(last.status) /\ last.body # "unreadable"
          /\ EnvelopeMessage(last.body) # "") =>
        ret.Message = EnvelopeMessage(last.body)

\* C15: an operation called with a locally invalid input (ValidateLicense
\* with an empty license key) whose request can be built makes no send and
\* ends with a validation error.
C15_LocalValidationFirst ==
    (args.licenseKey = "" /\ args.build = "ok" /\ Done) =>
        /\ attempts = 0
        /\ sent = << >>
        /\ ret.Type = "validation_error"

\* C16: when building the request fails (malformed URL, body that cannot be
\* serialized) the operation is over at once with the construction error:
\* no send, no backoff sleep, whatever the retry budget. The API key of a
\* client is never empty, NewClient refuses to build one.
C16_ConstructionErrorNotRetried ==
    /\ client.apiKey # ""
    /\ (args.build # "ok" /\ pc # "idle") =>
          /\ Done
          /\ ret # Nil
          /\ ret.Message = args.build
          /\ attempts = 0
          /\ sent = << >>
          /\ sleeps = << >>

C16_Witness ==
    /\ Done
    /\ args.build = "marshalError"
    /\ client.retries = 2
    /\ ret.goType = "*json.UnsupportedValueError"
    /\ attempts = 0

\* C18: every request sent, first attempt or retry, carries Authorization:
\* Bearer <the client's API key>, Content-Type and Accept application/json,
\* and the fixed client identifier as User-Agent.
C18_HeadersOnEveryRequest ==
    \A k \in 1..Len(sent) :
        /\ {"Authorization", "Content-Type", "Accept", "User-Agent"}
              \subseteq DOMAIN sent[k].headers
        /\ sent[k].headers["Authorization"] = << "Bearer ", client.apiKey >>
        /\ sent[k].headers["Content-Type"] = << "application/json" >>
        /\ sent[k].headers["Accept"] = << "application/json" >>
        /\ sent[k].headers["User-Agent"] = << "LicenseChain-Go-SDK/1.0.0" >>

\* C20: ValidateLicense answered 404 with the body {"error":"not found"}
\* returns an error of kind not_found whose message is "not found", never a
\* verdict with a nil error.
C20_NotFoundScenario ==
    (Done /\ attempts >= 1 /\ last = [status |-> 404, body |-> "json"]) =>
        /\ ret # Nil
        /\ ret.Type = "not_found_error"
        /\ ret.Message = "not found"

\* C17: NewClient returns an error and no client when the API key is empty;
\* otherwise no error and a client with the API key supplied, in which a
\* base URL, timeout, retry count or retry delay left at its zero value is
\* https://api.licensechain.app, 30 s, 3 and 1 s.
C17_NewClientDefaults ==
    (pc = "idle") =>
        /\ (config.APIKey = "") => (client = NoClient /\ newErr # Nil)
        /\ (config.APIKey # "") =>
              /\ newErr = Nil
              /\ client # NoClient
              /\ client.apiKey = config.APIKey
              /\ (config.BaseURL = << >>) =>
                    client.baseURL = << "https://api.licensechain.app" >>
              /\ (config.Timeout = {}) =>
                    client.timeout = {10, 11, 13, 15, 16, 17, 21, 26, 27, 28,
                                      29, 30, 31, 33, 34}
              /\ (config.Retries = 0) => client.retries = 3
              /\ (config.RetryDelay = {}) =>
                    client.retryDelay = {9, 11, 14, 15, 17, 19, 20, 23, 24,
                                         25, 27, 28, 29}

C17_Witness ==
    /\ pc = "idle"
    /\ config = [APIKey |-> "key-2", BaseURL |-> << >>,
                 Timeout |-> ZeroDuration, Retries |-> 0,
                 RetryDelay |-> ZeroDuration]
    /\ newErr = Nil
    /\ client.apiKey = "key-2"
    /\ client.retries = 3
    /\ client.baseURL = DefaultBaseURL

\* 1-based index of the first outcome of seen that is not retryable (0 when
\* every one is retryable)
FirstFinal(seen) ==
    LET nr == { j \in 1..Len(seen) : ~RetryableOutcome(seen[j].status) }
    IN IF nr = {} THEN 0 ELSE CHOOSE j \in nr : \A k \in nr : j <= k

\* C14: with several calls interleaved on one client, (1) the client keeps
\* the configuration NewClient gave it, (2) each call's number of sends is
\* min(retries + 1, k) of its own outcomes, k the index of its own first
\* outcome that is not retryable, (3) two finished calls that saw the same
\* outcomes made the same sends and sleeps and return the same result,
\* whatever the other did in between, and (4) a step changes the locals of
\* at most one call and never the client.
C14_CallsIndependent ==
    /\ [](/\ client = NewClient(config)
          /\ \A c \in CallIds :
                /\ calls[c].attempts = Len(calls[c].seen)
                /\ calls[c].attempts <= client.retries + 1
                /\ (calls[c].pc = "done") =>
                      calls[c].attempts =
                          IF FirstFinal(calls[c].seen) = 0
                          THEN client.retries + 1
                          ELSE Min(client.retries + 1,
                                   FirstFinal(calls[c].seen))
          /\ \A c, d \in CallIds :
                (calls[c].pc = "done" /\ calls[d].pc = "done"
                    /\ calls[c].seen = calls[d].seen) =>
                  /\ calls[c].ret = calls[d].ret
                  /\ calls[c].attempts = calls[d].attempts
                  /\ calls[c].sleeps = calls[d].sleeps)
    /\ [][ /\ client' = client
           /\ config' = config
           /\ \A c, d \in CallIds :
                 (c # d) => (calls'[c] = calls[c] \/ calls'[d] = calls[d])
         ]_vars

C14_Witness ==
    /\ client.retries = 2
    /\ calls[1].pc = "sleep"
    /\ calls[1].attempts = 2
    /\ calls[1].i = 1
    /\ calls[1].lastErr = ReadError(1)
    /\ calls[2].pc = "done"
    /\ calls[2].attempts = 3
    /\ calls[2].ret = HTTPTextError(503, "text", 2)

\* C22: every send of a call is given the request newRequest built, with
\* the complete body the caller supplied: the request of send k is the
\* request of send 1 and its body is never what an earlier send left of it.
C22_SameRequestEveryAttempt ==
    \A k \in 1..Len(sent) :
        /\ sent[k] = sent[1]
        /\ bodies[k] = "full"

\* C23: a call that reached do has made at least one send when it returns,
\* for every retry count NewClient accepts, negative ones included.
C23_AtLeastOneSend ==
    Done => attempts >= 1

\* C25: a finished call has slept once less than it has sent: it sleeps
\* only between two sends and returns after its last send without sleeping.
C25_SleepsBetweenAttempts ==
    /\ Done => Len(sleeps) = attempts - 1
    /\ (pc = "sleep") => Len(sleeps) = attempts
    /\ (pc = "loop") => Len(sleeps) = attempts

\* d > 0 as an int64
Positive(d) == d # {} /\ (DurationBits - 1) \notin d

\* a <= b as int64 values
SignedLeq(a, b) ==
    LET na == (DurationBits - 1) \in a
        nb == (DurationBits - 1) \in b
        diff == (a \ b) \cup (b \ a)
        top == CHOOSE k \in diff : \A j \in diff : j <= k
    IN IF a = b THEN TRUE
       ELSE IF na # nb THEN na
       ELSE top \in b

\* C26: the backoff delays of a call are positive and do not decrease from
\* one sleep to the next: retryDelay * (1 << i) never wraps to zero or to a
\* negative value.
C26_BackoffNeverWraps ==
    \A k \in 1..Len(sleeps) :
        /\ Positive(sleeps[k].delay)
        /\ (k > 1) => SignedLeq(sleeps[k - 1].delay, sleeps[k].delay)

\* C27: after a send that obtained a status but whose body could not be
\* read, the call retries iff the status is 429 or >= 500 and the send was
\* not the last the budget allows; otherwise it is over with the read error
\* of that send, nothing decoded. A 2xx status is never retried.
C27_UnreadableBody ==
    (attempts >= 1 /\ last.status # TransportFailure
                   /\ last.body = "unreadable") =>
        IF (last.status = 429 \/ last.status >= 500)
              /\ attempts - 1 < client.retries
        THEN /\ pc \in {"sleep", "loop"}
             /\ Len(sleeps) = attempts
             /\ sleeps[attempts].path = "read"
             /\ lastErr = ReadError(attempts - 1)
        ELSE /\ Done
             /\ ret = ReadError(attempts - 1)
             /\ ~decoded
             /\ Len(sleeps) = attempts - 1

C27_Witness ==
    /\ Done
    /\ client.retries = 3
    /\ hasResult
    /\ observed = << 429, 200 >>
    /\ last.body = "unreadable"
    /\ sleeps[1].path = "read"
    /\ ret = ReadError(1)
    /\ ~decoded

\* C24: on a client constructed with Retries set to 0 a call sends exactly
\* once and never sleeps, even when the outcome of that send is retryable.
C24_ZeroRetriesMeansOneSend ==
    (config.Retries = 0) =>
        /\ attempts <= 1
        /\ sleeps = << >>
        /\ Done => attempts = 1

\* C29: RetryWithBackoff calls fn at most maxRetries times, never again
\* after a call returned nil, and sleeps only between two calls: the k-th
\* sleep follows the k-th call, a finished run has slept once less than it
\* has called, and the sleep after call i (counted from 0) lasts
\* initialDelay * 2^i whenever that product is a time.Duration.
C29_RetryWithBackoffCalls ==
    LET n == Len(rwb.outcomes)
    IN /\ n <= (IF rwb.maxRetries > 0 THEN rwb.maxRetries ELSE 0)
       /\ \A k \in 1..(n - 1) : rwb.outcomes[k] # "nil"
       /\ (n >= 1 /\ rwb.outcomes[n] = "nil") => rwb.state = "done"
       /\ Len(rwb.sleeps) <= n
       /\ (rwb.state = "sleep") => (Len(rwb.sleeps) = n /\ n < rwb.maxRetries)
       /\ (rwb.state = "done" /\ n >= 1) => Len(rwb.sleeps) = n - 1
       /\ \A k \in 1..Len(rwb.sleeps) :
             /\ rwb.sleeps[k].after = k - 1
             /\ (TopBit(rwb.initialDelay) + k - 1 <= DurationBits - 2) =>
                   rwb.sleeps[k].delay = Doubled(rwb.initialDelay, k - 1)

C29_Witness ==
    /\ rwb.state = "done"
    /\ rwb.maxRetries = 3
    /\ rwb.initialDelay = TenMillis
    /\ rwb.outcomes = << "e1", "e2", "e1" >>
    /\ Len(rwb.sleeps) = 2
    /\ rwb.sleeps[2].delay = FromNat(20000000)
    /\ rwb.result = FnError("e1", 2)

\* C30: RetryWithBackoff returns nil only if a call of fn returned nil;
\* when no call succeeded, whatever maxRetries is, it returns a non-nil
\* error, the one of the last call.
C30_RetryWithBackoffResult ==
    LET n == Len(rwb.outcomes)
    IN (rwb.state = "done") =>
         /\ (rwb.result = Nil) => (n >= 1 /\ rwb.outcomes[n] = "nil")
         /\ (\A k \in 1..n : rwb.outcomes[k] # "nil") =>
               /\ rwb.result # Nil
               /\ n >= 1
               /\ rwb.result = FnError(rwb.outcomes[n], n - 1)

\* position of a step in the steps ProcessEvent took, 0 when not taken
StepIndex(step) ==
    LET at == { k \in 1..Len(wh.checks) : wh.checks[k] = step }
    IN IF at = {} THEN 0 ELSE CHOOSE k \in at : TRUE

\* C21: VerifyWebhookSignature accepts the signature CreateWebhookSignature
\* makes for the payload and the secret, and rejects every signature that
\* differs from it: in one character, in length, or altogether.
C21_SignatureRoundTrip ==
    (wh.op = "verify" /\ wh.state = "done") =>
        LET good == CreateWebhookSignature(wh.payload, wh.handler.secret)
        IN /\ (wh.signature.val = good) => wh.verdict
           /\ (wh.signature.val # good) => ~wh.verdict

C21_Witness ==
    /\ wh.op = "verify"
    /\ wh.state = "done"
    /\ ~wh.verdict
    /\ LET good == CreateWebhookSignature(wh.payload, wh.handler.secret)
       IN /\ Len(wh.signature.val) = Len(good)
          /\ Cardinality({ k \in 1..Len(good) :
                             wh.signature.val[k] # good[k] }) = 1

\* C28: ProcessEvent runs a handler only for an event whose timestamp lies
\* within the tolerance of the current time and whose signature is the one
\* of its serialized data; an event without signature, without timestamp,
\* with a timestamp outside the window or with a wrong signature gets an
\* error and no handler; the signature is verified only after the
\* timestamp has been verified and accepted.
C28_VerifiedBeforeDispatch ==
    (wh.op = "process" /\ wh.state = "done") =>
        LET tol == wh.handler.tolerance
            ts == wh.timestamp.val
            unix == ts.clock - ts.zone
            inWindow == /\ wh.timestamp.ok
                        /\ ts.layout = "rfc3339"
                        /\ unix >= Now - tol
                        /\ unix <= Now + tol
            sigOK == /\ wh.signature.ok
                     /\ wh.data # "channel"
                     /\ wh.signature.val =
                          CreateWebhookSignature(JSONSerialize(wh.data).str,
                                                 wh.handler.secret)
        IN /\ (wh.ran # "none") =>
                /\ inWindow
                /\ sigOK
                /\ wh.err = Nil
                /\ StepIndex("VerifyTimestamp") > 0
                /\ StepIndex("VerifySignature") < StepIndex("switch")
           /\ (~wh.signature.ok \/ ~wh.timestamp.ok \/ ~inWindow \/ ~sigOK) =>
                /\ wh.err # Nil
                /\ wh.ran = "none"
           /\ (StepIndex("VerifySignature") > 0) =>
                /\ StepIndex("VerifyTimestamp") > 0
                /\ StepIndex("VerifyTimestamp") < StepIndex("VerifySignature")
                /\ inWindow

C28_Witness ==
    /\ wh.op = "process"
    /\ wh.state = "done"
    /\ wh.ran = "handlePaymentRefunded"
    /\ wh.handler.tolerance = 300
    /\ wh.timestamp.val.zone = 3600
    /\ wh.timestamp.val.clock - wh.timestamp.val.zone = Now - 300
    /\ Len(wh.checks) = 7

=============================================================================
